---------------------------- MODULE Spec2Model ----------------------------
(***************************************************************************)
(* A model of src/codegeneration/ModuleTransformer.js (traceur-compiler):  *)
(* the lowering of a module tree to a registerModule(...) script, and the  *)
(* stack of module-specifier -> temp-name mappings it keeps.               *)
(*                                                                         *)
(* JavaScript is single-threaded and the transform is synchronous, so each *)
(* entry point is one action.  The methods are operators that thread the   *)
(* transformer  t = [..., idMappingStack_, gen, threw, popped]  through    *)
(* the calls in the order the code makes them; a thrown exception is the   *)
(* field threw, which every caller propagates without doing further work.  *)
(***************************************************************************)
EXTENDS Naturals, Sequences, FiniteSets, TLC

(***************************************************************************)
(* Bounds of the model.                                                    *)
(***************************************************************************)
MaxItems == 2          \* longest scriptItemList drawn as input
MaxIdentifiers == 3    \* cap on the names one identifier generator hands out
MaxDepth == 3          \* deepest idMappingStack_ the allocator calls build

VARIABLES
  scriptItemList,      \* input: tree.scriptItemList of the tree being transformed
  moduleSymbol,        \* input: the Module (url, export table) resolved for that tree
  projectUrl,          \* external state: project.url, per project
  identifierGenerator, \* external state: project.identifierGenerator, per project
  this,                \* the ModuleTransformer instance of the latest call
  call,                \* the latest call: entry point, arguments, generator state at entry
  result,              \* what the latest call returned (Null when it threw)
  threw,               \* "" or the exception the latest call ended with
  alloc                \* history of the allocator calls made on `this` directly

vars == <<scriptItemList, moduleSymbol, projectUrl, identifierGenerator,
          this, call, result, threw, alloc>>

Projects == {"p1", "p2"}

Null == [type |-> "NULL"]

(***************************************************************************)
(* Input trees.                                                            *)
(***************************************************************************)
Token(value) == [type |-> "STRING", value |-> value]

\* LiteralToken.processedValue: the string the literal denotes, quotes removed.
processedValue(token) ==
  CASE token.value = "'m1'" -> "m1"
    [] token.value = "\"m1\"" -> "m1"
    [] token.value = "'m2'" -> "m2"

ModuleSpecifier(value) == [type |-> "MODULE_SPECIFIER", token |-> Token(value)]

\* rhs = "" stands for an absent right-hand identifier.
ExportSpecifier(lhs, rhs) == [type |-> "EXPORT_SPECIFIER", lhs |-> lhs, rhs |-> rhs]

ExportSpecifierSet(specifiers) ==
  [type |-> "EXPORT_SPECIFIER_SET", specifiers |-> specifiers]

ExportStar == [type |-> "EXPORT_STAR"]

NamedExport(moduleSpecifier, specifierSet) ==
  [type |-> "NAMED_EXPORT", moduleSpecifier |-> moduleSpecifier,
   specifierSet |-> specifierSet]

FunctionDeclaration(name) == [type |-> "FUNCTION_DECLARATION", name |-> name]

ExportDeclaration(declaration) ==
  [type |-> "EXPORT_DECLARATION", declaration |-> declaration]

ImportSpecifier(lhs, rhs) == [type |-> "IMPORT_SPECIFIER", lhs |-> lhs, rhs |-> rhs]

\* specifiers is the STAR token or an array of ImportSpecifier.
ImportSpecifierSet(specifiers) ==
  [type |-> "IMPORT_SPECIFIER_SET", specifiers |-> specifiers]

StarToken == [type |-> "STAR", elements |-> <<>>]

Array(elements) == [type |-> "ARRAY", elements |-> elements]

ImportDeclaration(importSpecifierSet, moduleSpecifier) ==
  [type |-> "IMPORT_DECLARATION", importSpecifierSet |-> importSpecifierSet,
   moduleSpecifier |-> moduleSpecifier]

ModuleDeclaration(identifier, expression) ==
  [type |-> "MODULE_DECLARATION", identifier |-> identifier,
   expression |-> expression]

ExpressionStatement(text) == [type |-> "EXPRESSION_STATEMENT", text |-> text]

\* The statements the input lists are drawn from.
StatementPool ==
  { NamedExport(ModuleSpecifier("'m1'"),
                ExportSpecifierSet(<<ExportSpecifier("a", ""), ExportSpecifier("c", "b")>>)),
    NamedExport(ModuleSpecifier("\"m1\""),
                ExportSpecifierSet(<<ExportSpecifier("e", "")>>)),
    NamedExport(ModuleSpecifier("'m2'"), ExportStar),
    NamedExport(Null, ExportSpecifierSet(<<ExportSpecifier("g", "h")>>)),
    ExportDeclaration(FunctionDeclaration("f")),
    ImportDeclaration(ImportSpecifierSet(Array(<<ImportSpecifier("x", "y"),
                                                   ImportSpecifier("w", "")>>)),
                      ModuleSpecifier("'m1'")),
    ImportDeclaration(ImportSpecifierSet(StarToken), ModuleSpecifier("'m2'")),
    ModuleDeclaration("z", ModuleSpecifier("'m2'")),
    ExpressionStatement("s()") }

ItemLists == UNION { [1..n -> StatementPool] : n \in 0..MaxItems }

Script(scriptItemList_) == [type |-> "SCRIPT", scriptItemList |-> scriptItemList_]

Module(scriptItemList_) == [type |-> "MODULE", scriptItemList |-> scriptItemList_]

(***************************************************************************)
(* The collaborators the transformer consumes.                             *)
(***************************************************************************)
\* The export names of the modules the specifiers resolve to.
RegistryExports(moduleName) ==
  CASE moduleName = "m1" -> <<"a", "c", "e", "w", "x">>
    [] moduleName = "m2" -> <<"x", "y">>

ExportSymbol(name, tree, relatedTree) ==
  [name |-> name, tree |-> tree, relatedTree |-> relatedTree]

\* The symbols one statement contributes to its module's export table;
\* `related` says whether the resolution pass recorded the related specifier.
RECURSIVE SpecifierSymbols(_, _)
SpecifierSymbols(specifiers, relatedTree) ==
  IF specifiers = <<>> THEN <<>>
  ELSE LET s == Head(specifiers)
       IN <<ExportSymbol(IF s.rhs # "" THEN s.rhs ELSE s.lhs, s, relatedTree)>>
          \o SpecifierSymbols(Tail(specifiers), relatedTree)

StatementSymbols(item, related) ==
  CASE item.type = "NAMED_EXPORT" ->
         LET relatedTree == IF related THEN item.moduleSpecifier ELSE Null
         IN IF item.specifierSet.type = "EXPORT_STAR"
            THEN LET names == RegistryExports(processedValue(item.moduleSpecifier.token))
                 IN [i \in 1..Len(names) |->
                       ExportSymbol(names[i], item.specifierSet, relatedTree)]
            ELSE SpecifierSymbols(item.specifierSet.specifiers, relatedTree)
    [] item.type = "EXPORT_DECLARATION" ->
         <<ExportSymbol(item.declaration.name, item.declaration, Null)>>
    [] OTHER -> <<>>

RECURSIVE ExportTable(_, _)
ExportTable(items, related) ==
  IF items = <<>> THEN <<>>
  ELSE StatementSymbols(Head(items), related) \o ExportTable(Tail(items), related)

ModuleSymbol(url_, exports) == [type |-> "MODULE_SYMBOL", url |-> url_, exports |-> exports]

getExports(module) == module.exports

\* UniqueIdentifierGenerator: the n-th name it generates.
GeneratedNames == <<"$__0", "$__1", "$__2", "$__3", "$__4", "$__5", "$__6", "$__7">>

generateUniqueIdentifier(n) == GeneratedNames[n + 1]

\* util/assert: a failed assertion throws.
assert(st, condition) ==
  IF condition THEN st ELSE [st EXCEPT !.threw = "AssertionError"]

(***************************************************************************)
(* Output trees (ParseTreeFactory, PlaceholderParser).                     *)
(***************************************************************************)
createUseStrictDirective == [type |-> "EXPRESSION_STATEMENT", text |-> "'use strict'"]

createIdentifierExpression(name) == [type |-> "IDENTIFIER_EXPRESSION", name |-> name]

createMemberExpression(operand, memberName) ==
  [type |-> "MEMBER_EXPRESSION", operand |-> createIdentifierExpression(operand),
   memberName |-> memberName]

createBindingIdentifier(name) == [type |-> "BINDING_IDENTIFIER", name |-> name]

BindingElement(binding) == [type |-> "BINDING_ELEMENT", binding |-> binding]

ObjectPatternField(name, element) ==
  [type |-> "OBJECT_PATTERN_FIELD", name |-> name, element |-> element]

ObjectPattern(fields) == [type |-> "OBJECT_PATTERN", fields |-> fields]

EmptyStatement == [type |-> "EMPTY_STATEMENT"]

createVariableStatement(lvalue, initializer) ==
  [type |-> "VARIABLE_STATEMENT", declarationType |-> "var",
   lvalue |-> lvalue, initializer |-> initializer]

createObjectLiteralExpression(properties) ==
  [type |-> "OBJECT_LITERAL_EXPRESSION", properties |-> properties]

\* parsePropertyDefinition `${name}: {get: function() { return ${e}; }, enumerable: true}`
PropertyDefinition(name, returnExpression) ==
  [type |-> "PROPERTY_NAME_ASSIGNMENT", name |-> name,
   get |-> returnExpression, enumerable |-> TRUE]

\* parseStatement `return Object.preventExtensions(Object.create(null, ${descriptors}));`
ReturnStatement(descriptors) == [type |-> "RETURN_STATEMENT", descriptors |-> descriptors]

\* parseStatement `System.get('@traceur/module').registerModule(${url}, function() {...}, this);`
RegisterStatement(url_, statements) ==
  [type |-> "REGISTER_MODULE", url |-> url_, statements |-> statements]

\* parseExpression `System.get(${token})`
SystemGet(token) == [type |-> "SYSTEM_GET", token |-> token]

(***************************************************************************)
(* ModuleTransformer.  A transformer t is the instance (project, generator,*)
(* module, idMappingStack_) together with gen, the state of the identifier *)
(* generator it draws from, threw, the pending exception, and popped, the  *)
(* mapping the latest popTempVarState discarded.                           *)
(***************************************************************************)
EmptyMapping == <<>>    \* Object.create(null)

\* new ModuleTransformer(project, module = null)
constructor_SharedGenerator(project, module) ==
  [project |-> project, generator |-> "p1", module |-> module,
   idMappingStack_ |-> <<EmptyMapping>>]

constructor(project, module) ==
  [project |-> project, generator |-> project, module |-> module,
   idMappingStack_ |-> <<EmptyMapping>>]

\* get url()
url(t) == IF t.module # Null THEN t.module.url ELSE projectUrl[t.project]

\* TempVarTransformer.getTempIdentifier: a fresh name from the generator.
getTempIdentifier(t) ==
  [name |-> generateUniqueIdentifier(t.gen), t |-> [t EXCEPT !.gen = @ + 1]]

getTempVarNameForModuleSpecifier_RawToken(t, moduleSpecifier) ==
  LET moduleName == moduleSpecifier.token.value
      top == Len(t.idMappingStack_)
      idMapping == t.idMappingStack_[top]
  IN IF top = 0 THEN [name |-> "", t |-> [t EXCEPT !.threw = "TypeError"]]
     ELSE IF moduleName \in DOMAIN idMapping
          THEN [name |-> idMapping[moduleName], t |-> t]
          ELSE LET fresh == getTempIdentifier(t)
               IN [name |-> fresh.name,
                   t |-> [fresh.t EXCEPT !.idMappingStack_[top] =
                                           idMapping @@ (moduleName :> fresh.name)]]

\* Finds the name in any scope of the stack, innermost first.
getTempVarNameForModuleSpecifier_AllScopes(t, moduleSpecifier) ==
  LET moduleName == processedValue(moduleSpecifier.token)
      top == Len(t.idMappingStack_)
      found == {i \in 1..top : moduleName \in DOMAIN t.idMappingStack_[i]}
  IN IF top = 0 THEN [name |-> "", t |-> [t EXCEPT !.threw = "TypeError"]]
     ELSE IF found # {}
          THEN [name |-> t.idMappingStack_[CHOOSE i \in found : \A j \in found : j <= i][moduleName],
                t |-> t]
          ELSE LET fresh == getTempIdentifier(t)
               IN [name |-> fresh.name,
                   t |-> [fresh.t EXCEPT !.idMappingStack_[top] =
                                           @ @@ (moduleName :> fresh.name)]]

\* Reading idMapping[moduleName] of an empty stack's undefined top is a TypeError.
getTempVarNameForModuleSpecifier(t, moduleSpecifier) ==
  LET moduleName == processedValue(moduleSpecifier.token)
      top == Len(t.idMappingStack_)
      idMapping == t.idMappingStack_[top]
  IN IF top = 0 THEN [name |-> "", t |-> [t EXCEPT !.threw = "TypeError"]]
     ELSE IF moduleName \in DOMAIN idMapping
          THEN [name |-> idMapping[moduleName], t |-> t]
          ELSE LET fresh == getTempIdentifier(t)
               IN [name |-> fresh.name,
                   t |-> [fresh.t EXCEPT !.idMappingStack_[top] =
                                           idMapping @@ (moduleName :> fresh.name)]]

pushTempVarState(t) ==
  [t EXCEPT !.idMappingStack_ = Append(@, EmptyMapping)]

\* Array.prototype.pop leaves an empty array empty.
popTempVarState(t) ==
  LET n == Len(t.idMappingStack_)
  IN IF n = 0 THEN t
     ELSE [t EXCEPT !.idMappingStack_ = SubSeq(@, 1, n - 1),
                    !.popped = t.idMappingStack_[n]]

\* function getGetterExport(transformer, symbol)
getGetterExport_ExportName(t, symbol) ==
  LET name == symbol.name
      tree == symbol.tree
  IN CASE tree.type = "EXPORT_SPECIFIER" ->
            IF symbol.relatedTree # Null
            THEN LET id == getTempVarNameForModuleSpecifier(t, symbol.relatedTree)
                 IN [tree |-> PropertyDefinition(name, createMemberExpression(id.name, name)),
                     t |-> id.t]
            ELSE [tree |-> PropertyDefinition(name, createIdentifierExpression(name)),
                  t |-> t]
       [] tree.type = "EXPORT_STAR" ->
            LET t1 == assert(t, symbol.relatedTree # Null)
            IN IF t1.threw # "" THEN [tree |-> Null, t |-> t1]
               ELSE LET id == getTempVarNameForModuleSpecifier(t, symbol.relatedTree)
                    IN [tree |-> PropertyDefinition(name, createMemberExpression(id.name, name)),
                        t |-> id.t]
       [] OTHER ->
            [tree |-> PropertyDefinition(name, createIdentifierExpression(name)), t |-> t]

getGetterExport(t, symbol) ==
  LET name == symbol.name
      tree == symbol.tree
  IN CASE tree.type = "EXPORT_SPECIFIER" ->
            IF symbol.relatedTree # Null
            THEN LET id == getTempVarNameForModuleSpecifier(t, symbol.relatedTree)
                 IN [tree |-> PropertyDefinition(name, createMemberExpression(id.name, tree.lhs)),
                     t |-> id.t]
            ELSE [tree |-> PropertyDefinition(name, createIdentifierExpression(tree.lhs)),
                  t |-> t]
       [] tree.type = "EXPORT_STAR" ->
            LET t1 == assert(t, symbol.relatedTree # Null)
            IN IF t1.threw # "" THEN [tree |-> Null, t |-> t1]
               ELSE LET id == getTempVarNameForModuleSpecifier(t, symbol.relatedTree)
                    IN [tree |-> PropertyDefinition(name, createMemberExpression(id.name, symbol.name)),
                        t |-> id.t]
       [] OTHER ->
            [tree |-> PropertyDefinition(name, createIdentifierExpression(name)), t |-> t]

\* exports.map(exp => getGetterExport(this, exp)); a throw ends the map.
RECURSIVE MapGetterExport(_, _)
MapGetterExport(t, exports) ==
  IF exports = <<>> THEN [trees |-> <<>>, t |-> t]
  ELSE LET first == getGetterExport(t, Head(exports))
       IN IF first.t.threw # "" THEN [trees |-> <<>>, t |-> first.t]
          ELSE LET rest == MapGetterExport(first.t, Tail(exports))
               IN [trees |-> <<first.tree>> \o rest.trees, t |-> rest.t]

\* Emits the export table without its first entry.
createExportStatement_SkipFirst(t) ==
  IF t.module = Null THEN [tree |-> Null, t |-> [t EXCEPT !.threw = "TypeError"]]
  ELSE LET exports == getExports(t.module)
           properties == MapGetterExport(t, IF exports = <<>> THEN exports ELSE Tail(exports))
       IN IF properties.t.threw # "" THEN [tree |-> Null, t |-> properties.t]
          ELSE [tree |-> ReturnStatement(createObjectLiteralExpression(properties.trees)),
                t |-> properties.t]

\* this.module.getExports() of a null module is a TypeError.
createExportStatement(t) ==
  IF t.module = Null THEN [tree |-> Null, t |-> [t EXCEPT !.threw = "TypeError"]]
  ELSE LET properties == MapGetterExport(t, getExports(t.module))
       IN IF properties.t.threw # "" THEN [tree |-> Null, t |-> properties.t]
          ELSE [tree |-> ReturnStatement(createObjectLiteralExpression(properties.trees)),
                t |-> properties.t]

transformModuleSpecifier(tree) == SystemGet(tree.token)

\* Takes a new name for every statement instead of asking the mapping.
transformNamedExport_FreshName(t, tree) ==
  LET moduleSpecifier == tree.moduleSpecifier
  IN IF moduleSpecifier # Null
     THEN LET expression == transformModuleSpecifier(moduleSpecifier)
              id == getTempIdentifier(t)
          IN [tree |-> createVariableStatement(createBindingIdentifier(id.name), expression),
              t |-> id.t]
     ELSE [tree |-> EmptyStatement, t |-> t]

transformNamedExport(t, tree) ==
  LET moduleSpecifier == tree.moduleSpecifier
  IN IF moduleSpecifier # Null
     THEN LET expression == transformModuleSpecifier(moduleSpecifier)
              id == getTempVarNameForModuleSpecifier(t, moduleSpecifier)
          IN [tree |-> createVariableStatement(createBindingIdentifier(id.name), expression),
              t |-> id.t]
     ELSE [tree |-> EmptyStatement, t |-> t]

transformModuleDeclaration(tree) ==
  createVariableStatement(createBindingIdentifier(tree.identifier),
                          transformModuleSpecifier(tree.expression))

transformImportSpecifier(tree) ==
  IF tree.rhs # ""
  THEN ObjectPatternField(tree.lhs, BindingElement(createBindingIdentifier(tree.rhs)))
  ELSE BindingElement(createBindingIdentifier(tree.lhs))

\* project.getModuleForStarTree(tree).getExports(): the only star import of the
\* statement pool imports from 'm2'.
getModuleForStarTree(tree) == RegistryExports("m2")

transformImportSpecifierSet(tree) ==
  IF tree.specifiers.type = "STAR"
  THEN LET exports == getModuleForStarTree(tree)
       IN ObjectPattern([i \in 1..Len(exports) |->
                           BindingElement(createBindingIdentifier(exports[i]))])
  ELSE ObjectPattern([i \in 1..Len(tree.specifiers.elements) |->
                        transformImportSpecifier(tree.specifiers.elements[i])])

transformImportDeclaration(tree) ==
  LET binding == transformImportSpecifierSet(tree.importSpecifierSet)
      initializer == transformModuleSpecifier(tree.moduleSpecifier)
  IN createVariableStatement(binding, initializer)

\* A declaration that holds no module syntax is copied unchanged.
transformExportDeclaration(tree) == tree.declaration

\* ParseTreeTransformer.transformAny on a script item: dispatch on the tree
\* type, identity for the types ModuleTransformer does not handle.
transformAny(t, tree) ==
  CASE tree.type = "NAMED_EXPORT" -> transformNamedExport(t, tree)
    [] tree.type = "EXPORT_DECLARATION" -> [tree |-> transformExportDeclaration(tree), t |-> t]
    [] tree.type = "IMPORT_DECLARATION" -> [tree |-> transformImportDeclaration(tree), t |-> t]
    [] tree.type = "MODULE_DECLARATION" -> [tree |-> transformModuleDeclaration(tree), t |-> t]
    [] OTHER -> [tree |-> tree, t |-> t]

\* ParseTreeTransformer.transformList: transformAny on each element, in order.
RECURSIVE transformList(_, _)
transformList(t, list) ==
  IF list = <<>> THEN [trees |-> <<>>, t |-> t]
  ELSE LET first == transformAny(t, Head(list))
           rest == transformList(first.t, Tail(list))
       IN [trees |-> <<first.tree>> \o rest.trees, t |-> rest.t]

\* Pops the scope before the export statement is created.
transformModule_PopBeforeExports(t, tree) ==
  LET t0 == assert(t, url(t) # "")
  IN IF t0.threw # "" THEN [tree |-> Null, t |-> t0]
     ELSE LET t1 == pushTempVarState(t0)
              body == transformList(t1, tree.scriptItemList)
              exports == createExportStatement(popTempVarState(body.t))
          IN IF exports.t.threw # "" THEN [tree |-> Null, t |-> exports.t]
             ELSE [tree |-> Script(<<RegisterStatement(url(t),
                                       <<createUseStrictDirective>> \o body.trees
                                         \o <<exports.tree>>)>>),
                   t |-> exports.t]

\* Puts the export statement before the rewritten statements.
transformModule_ExportsFirst(t, tree) ==
  LET t0 == assert(t, url(t) # "")
  IN IF t0.threw # "" THEN [tree |-> Null, t |-> t0]
     ELSE LET t1 == pushTempVarState(t0)
              body == transformList(t1, tree.scriptItemList)
              exports == createExportStatement(body.t)
          IN IF exports.t.threw # "" THEN [tree |-> Null, t |-> exports.t]
             ELSE [tree |-> Script(<<RegisterStatement(url(t),
                                       <<createUseStrictDirective, exports.tree>>
                                         \o body.trees)>>),
                   t |-> popTempVarState(exports.t)]

\* Pushes the scope before the url is asserted.
transformModule_PushFirst(t, tree) ==
  LET t1 == pushTempVarState(t)
      t0 == assert(t1, url(t) # "")
  IN IF t0.threw # "" THEN [tree |-> Null, t |-> t0]
     ELSE LET body == transformList(t1, tree.scriptItemList)
              exports == createExportStatement(body.t)
          IN IF exports.t.threw # "" THEN [tree |-> Null, t |-> exports.t]
             ELSE [tree |-> Script(<<RegisterStatement(url(t),
                                       <<createUseStrictDirective>> \o body.trees
                                         \o <<exports.tree>>)>>),
                   t |-> popTempVarState(exports.t)]

\* The elements of the array literal are evaluated left to right: the body is
\* rewritten before the export statement is created.  An exception leaves the
\* method at once: nothing after the throw runs.
transformModule(t, tree) ==
  LET t0 == assert(t, url(t) # "")
  IN IF t0.threw # "" THEN [tree |-> Null, t |-> t0]
     ELSE LET t1 == pushTempVarState(t0)
              body == transformList(t1, tree.scriptItemList)
              exports == createExportStatement(body.t)
          IN IF exports.t.threw # "" THEN [tree |-> Null, t |-> exports.t]
             ELSE [tree |-> Script(<<RegisterStatement(url(t),
                                       <<createUseStrictDirective>> \o body.trees
                                         \o <<exports.tree>>)>>),
                   t |-> popTempVarState(exports.t)]

\* The inherited transformScript: the items rewritten, in a new Script.
transformScript(t, tree) ==
  LET body == transformList(t, tree.scriptItemList)
  IN [tree |-> Script(body.trees), t |-> body.t]

\* transformAny on the root: dispatch on the tree type.
transformRoot(t, tree) ==
  IF tree.type = "MODULE" THEN transformModule(t, tree) ELSE transformScript(t, tree)

\* The transformer a call runs: the instance, the state of its generator.
Running(instance) ==
  [project |-> instance.project, generator |-> instance.generator,
   module |-> instance.module, idMappingStack_ |-> instance.idMappingStack_,
   gen |-> identifierGenerator[instance.generator], threw |-> "", popped |-> EmptyMapping]

Thrown(t) == [tree |-> Null, t |-> [t EXCEPT !.threw = "AssertionError"]]

\* static transform(project, tree)
transform(project, tree) ==
  LET t == Running(constructor(project, Null))
  IN IF assert(t, tree.type = "SCRIPT").threw # "" THEN Thrown(t)
     ELSE transformRoot(t, tree)

\* static transformAsModule(project, module, tree)
transformAsModule(project, module, tree) ==
  LET t == Running(constructor(project, module))
  IN IF assert(t, tree.type = "MODULE").threw # "" THEN Thrown(t)
     ELSE IF assert(t, module # Null).threw # "" THEN Thrown(t)
     ELSE transformRoot(t, tree)

\* new ModuleTransformer(project, module).transformAny(tree), as a caller that
\* holds a tree and builds the transformer itself does.
transformWith(project, module, tree) ==
  transformRoot(Running(constructor(project, module)), tree)

(***************************************************************************)
(* The calls of the entry points.  The input (the statement list and the   *)
(* export table resolved for it) is drawn once.  A driver transforms it by *)
(* one entry point, as a SCRIPT or a MODULE tree, and may run that same    *)
(* transform again, for either project, any number of times.  The two      *)
(* projects are built alike: same url, each its own identifier generator.  *)
(***************************************************************************)
ModuleUrls == {"", "http://m"}

ProjectUrls == {"", "http://p"}

TreeTypes == {"SCRIPT", "MODULE"}

Tree(type) == IF type = "MODULE" THEN Module(scriptItemList) ELSE Script(scriptItemList)

NoCall ==
  [entry |-> "none", project |-> "p1", module |-> Null, treeType |-> "SCRIPT", gen |-> 0]

NoAlloc ==
  [op |-> "none", token |-> Token("'m1'"), name |-> "", saved |-> <<>>, log |-> <<>>]

Init ==
  /\ scriptItemList \in ItemLists
  /\ moduleSymbol \in { ModuleSymbol(u, ExportTable(scriptItemList, related)) :
                          u \in ModuleUrls, related \in BOOLEAN }
  /\ \E u \in ProjectUrls : projectUrl = [p \in Projects |-> u]
  /\ identifierGenerator = [p \in Projects |-> 0]
  /\ this = Null
  /\ call = NoCall
  /\ result = Null
  /\ threw = ""
  /\ alloc = NoAlloc

\* The driver's first transform, or the same transform again.
FirstOrSame(entry, module, type) ==
  \/ call.entry = "none"
  \/ call.entry = entry /\ call.module = module /\ call.treeType = type

\* The state a call leaves: the instance, the generator it drew from, the
\* returned tree or the exception.
Returns(r, entry, project, module, type) ==
  /\ r.t.gen <= MaxIdentifiers
  /\ this' = r.t
  /\ identifierGenerator' = [identifierGenerator EXCEPT ![r.t.generator] = r.t.gen]
  /\ result' = r.tree
  /\ threw' = r.t.threw
  /\ call' = [entry |-> entry, project |-> project, module |-> module,
              treeType |-> type, gen |-> identifierGenerator[project]]
  /\ UNCHANGED <<scriptItemList, moduleSymbol, projectUrl, alloc>>

Transform(project, type) ==
  /\ FirstOrSame("transform", Null, type)
  /\ Returns(transform(project, Tree(type)), "transform", project, Null, type)

TransformAsModule(project, module, type) ==
  /\ FirstOrSame("transformAsModule", module, type)
  /\ Returns(transformAsModule(project, module, Tree(type)),
             "transformAsModule", project, module, type)

TransformWith(project, module, type) ==
  /\ FirstOrSame("transformWith", module, type)
  /\ Returns(transformWith(project, module, Tree(type)),
             "transformWith", project, module, type)

Next ==
  \/ \E project \in Projects, type \in TreeTypes : Transform(project, type)
  \/ \E project \in Projects, type \in TreeTypes, module \in {moduleSymbol, Null} :
       TransformAsModule(project, module, type)
  \/ \E project \in Projects, type \in TreeTypes, module \in {moduleSymbol, Null} :
       TransformWith(project, module, type)

Spec == Init /\ [][Next]_vars

(***************************************************************************)
(* The allocator's three methods called directly on one transformer, in    *)
(* any order.  alloc keeps, for each scope on the stack, the lookups made  *)
(* in it (log) and the stack as it was before the scope was pushed (saved).*)
(***************************************************************************)
TokenValues == {"'m1'", "\"m1\"", "'m2'"}

InitAlloc ==
  /\ scriptItemList = <<>>
  /\ moduleSymbol = ModuleSymbol("http://m", <<>>)
  /\ projectUrl = [p \in Projects |-> "http://p"]
  /\ identifierGenerator = [p \in Projects |-> 0]
  /\ this = Running(constructor("p1", moduleSymbol))
  /\ call = NoCall
  /\ result = Null
  /\ threw = ""
  /\ alloc = [NoAlloc EXCEPT !.op = "new", !.log = <<{}>>]

AllocFrame == UNCHANGED <<scriptItemList, moduleSymbol, projectUrl, call, result>>

PushTempVarState ==
  /\ Len(this.idMappingStack_) < MaxDepth
  /\ this' = pushTempVarState(Running(this))
  /\ alloc' = [alloc EXCEPT !.op = "push", !.name = "",
                            !.saved = Append(@, this.idMappingStack_),
                            !.log = Append(@, {})]
  /\ threw' = ""
  /\ UNCHANGED identifierGenerator
  /\ AllocFrame

PopTempVarState ==
  /\ this' = popTempVarState(Running(this))
  /\ alloc' = [alloc EXCEPT !.op = "pop", !.name = "",
                            !.saved = IF @ = <<>> THEN @ ELSE SubSeq(@, 1, Len(@) - 1),
                            !.log = IF @ = <<>> THEN @ ELSE SubSeq(@, 1, Len(@) - 1)]
  /\ threw' = ""
  /\ UNCHANGED identifierGenerator
  /\ AllocFrame

GetTempVarNameForModuleSpecifier(value) ==
  LET r == getTempVarNameForModuleSpecifier(Running(this), ModuleSpecifier(value))
      top == Len(alloc.log)
  IN /\ r.t.gen <= MaxIdentifiers
     /\ this' = r.t
     /\ identifierGenerator' = [identifierGenerator EXCEPT ![r.t.generator] = r.t.gen]
     /\ threw' = r.t.threw
     /\ alloc' = [alloc EXCEPT !.op = "get", !.token = Token(value), !.name = r.name,
                               !.log = IF r.t.threw # "" THEN @
                                       ELSE [@ EXCEPT ![top] =
                                               @ \cup {[token |-> Token(value),
                                                        name |-> r.name]}]]
     /\ AllocFrame

NextAlloc ==
  \/ PushTempVarState
  \/ PopTempVarState
  \/ \E value \in TokenValues : GetTempVarNameForModuleSpecifier(value)

SpecAlloc == InitAlloc /\ [][NextAlloc]_vars


(***************************************************************************)
(* What the claims speak of.                                               *)
(***************************************************************************)
Called == call.entry # "none"

\* The latest call reached transformModule: the tree is a MODULE and the
\* assertions of the entry point, if any, passed.
EnteredTransformModule ==
  /\ Called
  /\ call.treeType = "MODULE"
  /\ \/ call.entry = "transformWith"
     \/ call.entry = "transformAsModule" /\ call.module # Null

\* The latest call was a module transform that returned.
ModuleReturned == EnteredTransformModule /\ threw = ""

RegisterCall == result.scriptItemList[1]

\* The body of the function passed to registerModule.
Body == RegisterCall.statements

ReturnStatements == {i \in 1..Len(Body) : Body[i].type = "RETURN_STATEMENT"}

\* The property descriptors of the export statement.
Descriptors == Body[CHOOSE i \in ReturnStatements : TRUE].descriptors.properties

Exports == call.module.exports

SpecifierValues == {"m1", "m2"}

IsTempName(name) == \E i \in 1..Len(GeneratedNames) : GeneratedNames[i] = name

\* The statements of the body that look the specifier value up.
Lookups(moduleName) ==
  {i \in 1..Len(Body) :
     /\ Body[i].type = "VARIABLE_STATEMENT"
     /\ Body[i].initializer.type = "SYSTEM_GET"
     /\ processedValue(Body[i].initializer.token) = moduleName}

\* Those of them that bind a temp name.
TempDeclarations(moduleName) ==
  {i \in Lookups(moduleName) :
     /\ Body[i].lvalue.type = "BINDING_IDENTIFIER"
     /\ IsTempName(Body[i].lvalue.name)}

\* The input statements that name the specifier value, and the named
\* exports (named re-exports, export-star statements) among them.
NamedExportsOf(moduleName) ==
  {i \in 1..Len(scriptItemList) :
     /\ scriptItemList[i].type = "NAMED_EXPORT"
     /\ scriptItemList[i].moduleSpecifier # Null
     /\ processedValue(scriptItemList[i].moduleSpecifier.token) = moduleName}

ReferencesOf(moduleName) ==
  NamedExportsOf(moduleName) \cup
  {i \in 1..Len(scriptItemList) :
     \/ /\ scriptItemList[i].type = "IMPORT_DECLARATION"
        /\ processedValue(scriptItemList[i].moduleSpecifier.token) = moduleName
     \/ /\ scriptItemList[i].type = "MODULE_DECLARATION"
        /\ processedValue(scriptItemList[i].expression.token) = moduleName}

C2_SameNameIffSameValue ==
  \A i \in 1..Len(alloc.log) :
    \A a, b \in alloc.log[i] :
      (a.name = b.name) <=> (processedValue(a.token) = processedValue(b.token))

C2_Witness ==
  \E i \in 1..Len(alloc.log) :
    \E a, b, c \in alloc.log[i] :
      /\ a.token # b.token
      /\ a.name = b.name
      /\ c.name # a.name

\* C3: a lookup reads and writes the innermost mapping only: a value the
\* innermost mapping holds keeps its name and changes nothing, any other
\* value (mapped in an outer scope or not) gets a name no scope holds, the
\* outer mappings stay as they are, and the pop that matches a push leaves
\* the stack exactly as it was before that push.
C3_InnermostScopeOnly ==
  [][ LET stack == this.idMappingStack_
          n == Len(stack)
          key == processedValue(alloc'.token)
          name == alloc'.name
      IN /\ (alloc'.op = "get" /\ threw' = "") =>
              /\ Len(this'.idMappingStack_) = n
              /\ \A i \in 1..(n - 1) : this'.idMappingStack_[i] = stack[i]
              /\ IF key \in DOMAIN stack[n]
                 THEN name = stack[n][key] /\ this'.idMappingStack_[n] = stack[n]
                 ELSE /\ \A i \in 1..n : \A k \in DOMAIN stack[i] : stack[i][k] # name
                      /\ this'.idMappingStack_[n] = stack[n] @@ (key :> name)
         /\ (alloc'.op = "push") => this'.idMappingStack_[n + 1] = EmptyMapping
         /\ (alloc'.op = "pop" /\ alloc.saved # <<>>) =>
              this'.idMappingStack_ = alloc.saved[Len(alloc.saved)]
    ]_vars

\* An inner scope gave a new name to a value the outer scope has mapped.
C3_Witness ==
  /\ alloc.op = "get"
  /\ Len(this.idMappingStack_) >= 2
  /\ \E k \in DOMAIN this.idMappingStack_[1] :
       /\ k \in DOMAIN this.idMappingStack_[2]
       /\ this.idMappingStack_[2][k] # this.idMappingStack_[1][k]

\* C4: the descriptor object has one property per entry of getExports(), in
\* the order of the table, named by the export, each an enumerable getter.
C4_OnePropertyPerExport ==
  ModuleReturned =>
    /\ Cardinality(ReturnStatements) = 1
    /\ Len(Descriptors) = Len(Exports)
    /\ \A i \in 1..Len(Exports) :
         /\ Descriptors[i].type = "PROPERTY_NAME_ASSIGNMENT"
         /\ Descriptors[i].name = Exports[i].name
         /\ Descriptors[i].enumerable = TRUE

C4_Witness ==
  /\ ModuleReturned
  /\ Len(Exports) >= 3
  /\ Len(Descriptors) = Len(Exports)
  /\ \E i, j \in 1..Len(Exports) : Exports[i].tree.type # Exports[j].tree.type

\* The temp name the module's scope maps the specifier to.
TempNameOf(moduleSpecifier) == this.popped[processedValue(moduleSpecifier.token)]

\* The expression C5 fixes for an export symbol.
GetterReads(symbol) ==
  CASE symbol.tree.type = "EXPORT_SPECIFIER" /\ symbol.relatedTree = Null ->
         createIdentifierExpression(symbol.tree.lhs)
    [] symbol.tree.type = "EXPORT_SPECIFIER" /\ symbol.relatedTree # Null ->
         createMemberExpression(TempNameOf(symbol.relatedTree), symbol.tree.lhs)
    [] symbol.tree.type = "EXPORT_STAR" ->
         createMemberExpression(TempNameOf(symbol.relatedTree), symbol.name)
    [] OTHER -> createIdentifierExpression(symbol.name)

\* C5: the getter of every export reads the expression its origin fixes: an
\* own binding its name, a single re-export without related specifier its
\* left-hand identifier, one with a related specifier <temp>.<left-hand
\* name>, a star re-export <temp>.<export name>.
C5_GetterBodyByOrigin ==
  ModuleReturned =>
    \A i \in 1..Len(Exports) :
      /\ i <= Len(Descriptors)
      /\ Exports[i].relatedTree # Null =>
           processedValue(Exports[i].relatedTree.token) \in DOMAIN this.popped
      /\ Descriptors[i].get = GetterReads(Exports[i])

\* A renamed re-export with a specifier and a star re-export in one table.
C5_Witness ==
  /\ ModuleReturned
  /\ \E i, j \in 1..Len(Exports) :
       /\ Exports[i].tree.type = "EXPORT_SPECIFIER"
       /\ Exports[i].relatedTree # Null
       /\ Exports[i].tree.lhs # Exports[i].name
       /\ Exports[j].tree.type = "EXPORT_STAR"
       /\ Descriptors[j].get.type = "MEMBER_EXPRESSION"

\* What an input statement is rewritten to.
Rewrites(item, out) ==
  CASE item.type = "NAMED_EXPORT" ->
         IF item.moduleSpecifier # Null
         THEN /\ out.type = "VARIABLE_STATEMENT"
              /\ out.lvalue.type = "BINDING_IDENTIFIER"
              /\ out.initializer = SystemGet(item.moduleSpecifier.token)
         ELSE out = EmptyStatement
    [] item.type = "IMPORT_DECLARATION" ->
         /\ out.type = "VARIABLE_STATEMENT"
         /\ out.lvalue.type = "OBJECT_PATTERN"
         /\ out.initializer = SystemGet(item.moduleSpecifier.token)
    [] item.type = "MODULE_DECLARATION" ->
         out = createVariableStatement(createBindingIdentifier(item.identifier),
                                       SystemGet(item.expression.token))
    [] item.type = "EXPORT_DECLARATION" -> out = item.declaration
    [] OTHER -> out = item

\* C6: a module transform that returns, returns a script of exactly one
\* statement, the registration call on the module's url, whose body is the
\* strict-mode marker, the rewrites of the input statements in input order
\* (other statements unchanged) and the export statement, and nothing else.
C6_OutputShape ==
  ModuleReturned =>
    /\ result.type = "SCRIPT"
    /\ Len(result.scriptItemList) = 1
    /\ RegisterCall.type = "REGISTER_MODULE"
    /\ RegisterCall.url = call.module.url
    /\ RegisterCall.url # ""
    /\ Len(Body) = Len(scriptItemList) + 2
    /\ Body[1] = createUseStrictDirective
    /\ Body[Len(Body)].type = "RETURN_STATEMENT"
    /\ \A i \in 1..Len(scriptItemList) : Rewrites(scriptItemList[i], Body[i + 1])

C6_Witness ==
  /\ ModuleReturned
  /\ Len(scriptItemList) = 2
  /\ scriptItemList[1].type = "EXPRESSION_STATEMENT"
  /\ scriptItemList[2].type = "NAMED_EXPORT"
  /\ Body[2] = scriptItemList[1]
  /\ Body[3].type = "VARIABLE_STATEMENT"

\* The export table holds a star re-export without related specifier.
StarWithoutSpecifier(module) ==
  \E i \in 1..Len(module.exports) :
    /\ module.exports[i].tree.type = "EXPORT_STAR"
    /\ module.exports[i].relatedTree = Null

Aborted == threw # "" /\ result = Null

\* C7: every fatal precondition violation aborts without an output tree:
\* transform on a tree that is no SCRIPT, transformAsModule on a tree that is
\* no MODULE or with a null module, transformModule without any non-empty
\* url (before a scope is pushed or a name is taken), and the export
\* statement of a table with a star re-export that has no related specifier.
C7_ViolationsAbort ==
  /\ (call.entry = "transform" /\ call.treeType # "SCRIPT") => Aborted
  /\ (call.entry = "transformAsModule"
        /\ (call.treeType # "MODULE" \/ call.module = Null)) => Aborted
  /\ (EnteredTransformModule /\ projectUrl[call.project] = ""
        /\ (call.module = Null \/ call.module.url = "")) =>
       /\ Aborted
       /\ this.idMappingStack_ = <<EmptyMapping>>
       /\ identifierGenerator[call.project] = call.gen
  /\ (EnteredTransformModule /\ call.module # Null
        /\ StarWithoutSpecifier(call.module)) => Aborted
  /\ (Called /\ threw # "") => result = Null

\* The url is there and the star re-export has no related specifier.
C7_Witness ==
  /\ EnteredTransformModule
  /\ call.module # Null
  /\ call.module.url # ""
  /\ StarWithoutSpecifier(call.module)
  /\ threw = "AssertionError"
  /\ result = Null

C9_ScopeReleasedOnEveryExit ==
  (EnteredTransformModule /\ threw \in {"", "AssertionError"}) =>
    this.idMappingStack_ = constructor(call.project, call.module).idMappingStack_

\* C10: every temp name a getter reads through is bound, by a declaration
\* that precedes the export statement in the body, to the lookup of the
\* same specifier value.
C10_GetterNamesDeclared ==
  ModuleReturned =>
    \A i \in 1..Len(Exports) :
      (i <= Len(Descriptors) /\ Descriptors[i].get.type = "MEMBER_EXPRESSION") =>
        \E j \in 1..Len(Body) :
          /\ \A r \in ReturnStatements : j < r
          /\ Body[j].type = "VARIABLE_STATEMENT"
          /\ Body[j].lvalue = createBindingIdentifier(Descriptors[i].get.operand.name)
          /\ Body[j].initializer.type = "SYSTEM_GET"
          /\ Exports[i].relatedTree # Null
          /\ processedValue(Body[j].initializer.token)
               = processedValue(Exports[i].relatedTree.token)

C10_Witness ==
  /\ ModuleReturned
  /\ \E i, j \in 1..Len(Exports) :
       /\ Descriptors[i].get.type = "MEMBER_EXPRESSION"
       /\ Descriptors[j].get.type = "MEMBER_EXPRESSION"
       /\ Descriptors[i].get.operand # Descriptors[j].get.operand

=============================================================================
